---------------------------- MODULE Spec2Model ----------------------------
(***************************************************************************)
(* A model of the TCGA table pipeline: DataCleaner (data_cleaner.py),      *)
(* DataMerger (data_merger.py), FileHandler (file_handler.py),             *)
(* DataPhenotype (data_phenotype.py) and Controller (controller.py).       *)
(*                                                                         *)
(* A text value is a sequence of atoms: a word, a blank " " or a comma     *)
(* ",", so that stripping and splitting are computed, not assumed.         *)
(* A cell of a DataFrame is a record of one shape: a number, a text or     *)
(* the null value (NaN / None).  A DataFrame is its ordered column names,  *)
(* its index labels and its rows.                                          *)
(***************************************************************************)
EXTENDS Integers, Sequences, FiniteSets, TLC

VARIABLES
    pc,     \* the step the run is at
    inp,    \* the inputs of the run
    out,    \* what the operation returned or raised
    again,  \* what the cleaner returned when applied to its own output
    fh      \* the frames the FileHandler holds

vars == <<pc, inp, out, again, fh>>

-----------------------------------------------------------------------------
(* Bounds of the model *)

\* the most rows of an input table drawn by Init
MaxRows == 2

-----------------------------------------------------------------------------
(* Cells and text *)

NaN == [t |-> "nan", n |-> 0, s |-> <<>>]

Num(x) == [t |-> "num", n |-> x, s |-> <<>>]

Str(x) == [t |-> "str", n |-> 0, s |-> x]

Word(w) == Str(<<w>>)

isna(c) == c.t = "nan"

RECURSIVE LStrip(_)
LStrip(s) == IF s # <<>> /\ Head(s) = " " THEN LStrip(Tail(s)) ELSE s

RECURSIVE RStrip(_)
RStrip(s) ==
    IF s # <<>> /\ s[Len(s)] = " " THEN RStrip(SubSeq(s, 1, Len(s) - 1)) ELSE s

\* str.strip()
Strip(s) == RStrip(LStrip(s))

GENE_CODE == <<"Gene_Code">>

ACTUAL_GENE_NAME == <<"Actual_Gene_Name">>

GENE_NAME == <<"Gene_Name">>

-----------------------------------------------------------------------------
(* IEEE-754 double arithmetic of  (zero_counts / total_data_columns) * 100  *)
(* A positive double is [m, e]: m its 53 significand bits, most significant *)
(* first, e the exponent of the last bit; its value is m * 2^e.             *)

\* the 15 bits of v < 2^15, most significant first
Bits15(v) == [i \in 1..15 |-> (v \div (2 ^ (15 - i))) % 2]

\* the value of a string of at most 15 bits
BitsValue(a) ==
    LET len == Len(a)
        weigh[i \in 0..len] == IF i = 0 THEN 0 ELSE 2 * weigh[i - 1] + a[i]
    IN  weigh[len]

RECURSIVE DivDigits(_, _, _)
\* 15 * chunks binary digits of r/n after the point (r < n < 2^16), and the
\* remainder: long division, fifteen digits at a step
DivDigits(r, n, chunks) ==
    IF chunks = 0 THEN [bits |-> <<>>, rem |-> r]
    ELSE LET rest == DivDigits((r * 32768) % n, n, chunks - 1)
         IN  [bits |-> Bits15((r * 32768) \div n) \o rest.bits, rem |-> rest.rem]

RECURSIVE LeadingZeros(_, _)
\* the number of zero digits of k/n right after the binary point (0 < k < n)
LeadingZeros(k, n) == IF 2 * k >= n THEN 0 ELSE 1 + LeadingZeros(2 * k, n)

\* a bit string without its leading zeros
StripZeros(a) ==
    IF \A i \in 1..Len(a) : a[i] = 0 THEN <<>>
    ELSE SubSeq(a, CHOOSE i \in 1..Len(a) : a[i] = 1 /\ \A j \in 1..(i - 1) : a[j] = 0, Len(a))

\* a bit string plus one
Increment(a) ==
    IF \A i \in 1..Len(a) : a[i] = 1 THEN <<1>> \o [i \in 1..Len(a) |-> 0]
    ELSE LET p == CHOOSE i \in 1..Len(a) : a[i] = 0 /\ \A j \in (i + 1)..Len(a) : a[j] = 1
         IN  [i \in 1..Len(a) |-> IF i < p THEN a[i] ELSE IF i = p THEN 1 ELSE 0]

RECURSIVE TimesLimbs(_, _, _, _)
\* 15-bit limbs (most significant first) times `by`, from limb i down
TimesLimbs(limbs, by, i, carry) ==
    IF i = 0 THEN Bits15(carry)
    ELSE LET t == limbs[i] * by + carry
         IN  TimesLimbs(limbs, by, i - 1, t \div 32768) \o Bits15(t % 32768)

\* a string of 53 bits times `by` < 2^15, exactly
TimesBits(a, by) ==
    LET padded == [i \in 1..(60 - Len(a)) |-> 0] \o a
        limbs == [j \in 1..4 |-> BitsValue(SubSeq(padded, 15 * j - 14, 15 * j))]
    IN  StripZeros(TimesLimbs(limbs, by, 4, 0))

\* round-to-nearest, ties-to-even, of the bit string `bits` (first bit 1,
\* at least 54 bits, last bit of exponent e) to 53 bits; `sticky` says that
\* the exact value has further non-zero digits below `bits`
RoundToDouble(bits, e, sticky) ==
    LET len == Len(bits)
        kept == SubSeq(bits, 1, 53)
        guard == bits[54]
        below == sticky \/ \E i \in 55..len : bits[i] = 1
        up == guard = 1 /\ (below \/ kept[53] = 1)
        inc == Increment(kept)
        e53 == e + (len - 53)
    IN  IF ~up THEN [m |-> kept, e |-> e53]
        ELSE IF Len(inc) = 53 THEN [m |-> inc, e |-> e53]
        ELSE [m |-> SubSeq(inc, 1, 53), e |-> e53 + 1]

\* the double nearest to k/n, for 0 < k < n: true division of int64 by int
FloatDiv(k, n) ==
    LET z == LeadingZeros(k, n)
        d == DivDigits(k, n, 5)
    IN  RoundToDouble(SubSeq(d.bits, z + 1, 75), -75, d.rem # 0)

\* the double nearest to x * 100
FloatTimes100(x) ==
    RoundToDouble(TimesBits(x.m, 100), x.e, FALSE)

\* the integer part of a double below 2^31
FloatFloor(x) == IF 53 + x.e <= 0 THEN 0 ELSE BitsValue(SubSeq(x.m, 1, 53 + x.e))

\* whether a double is an integer
FloatIsWhole(x) == \A i \in 1..53 : i > 53 + x.e => x.m[i] = 0

\* floor of the double (k / n) * 100, and whether that double is whole
ZeroPercentage(k, n) ==
    IF k = 0 THEN [floor |-> 0, whole |-> TRUE]
    ELSE IF k = n THEN [floor |-> 100, whole |-> TRUE]
    ELSE LET x == FloatTimes100(FloatDiv(k, n))
         IN  [floor |-> FloatFloor(x), whole |-> FloatIsWhole(x)]

-----------------------------------------------------------------------------
(* DataFrames *)

\* a DataFrame built from its columns and rows, with a fresh RangeIndex
Frame(cols, rows) == [cols |-> cols, index |-> [i \in 1..Len(rows) |-> i], rows |-> rows]

HasCol(cols, name) == \E i \in 1..Len(cols) : cols[i] = name

\* list.index(name): the first position of name
ColPos(cols, name) ==
    CHOOSE i \in 1..Len(cols) : cols[i] = name /\ \A j \in 1..(i - 1) : cols[j] # name

\* df[mask]: the rows at the positions `pos`, with their index labels
TakeRows(df, pos) ==
    [cols |-> df.cols,
     index |-> [j \in 1..Len(pos) |-> df.index[pos[j]]],
     rows |-> [j \in 1..Len(pos) |-> df.rows[pos[j]]]]

\* the positions of the rows of df that satisfy Keep, in order
RowsWhere(df, Keep(_)) ==
    SelectSeq([i \in 1..Len(df.rows) |-> i], LAMBDA i : Keep(df.rows[i]))

\* df.loc[:, data] = df[data].<Fn>: Fn applied to every cell of the columns at `data`
MapCells(df, data, Fn(_)) ==
    [df EXCEPT !.rows =
        [i \in 1..Len(df.rows) |->
            [j \in 1..Len(df.cols) |->
                IF j \in data THEN Fn(df.rows[i][j]) ELSE df.rows[i][j]]]]

-----------------------------------------------------------------------------
(* DataCleaner: src/tcga/data/data_cleaner.py *)

\* .replace(['NA', 'na', '.', 0], np.nan)
ReplaceMissing(c) ==
    IF c \in {Word("NA"), Word("na"), Word("."), Num(0)} THEN NaN ELSE c

\* float(text) for the texts of the model: a numeric literal, or no number
ParseNumber(s) ==
    CASE s = <<"0">> -> Num(0)
      [] s = <<"0.0">> -> Num(0)
      [] s = <<"7">> -> Num(7)
      [] OTHER -> NaN

\* pd.to_numeric(errors='coerce')
to_numeric(c) == IF c.t = "str" THEN ParseNumber(c.s) ELSE c

\* .fillna(0)
fillna(c) == IF isna(c) THEN Num(0) ELSE c

\* (row[data] == 0).sum()
zero_counts(row, data) == Cardinality({j \in data : row[j] = Num(0)})

\* (zero_counts / total_data_columns) * 100 >= zero_percent, in doubles;
\* zero_percent is a whole number here, so the comparison is one of the floor
condition_exceed_zero(k, n, zero_percent) ==
    IF n = 0 THEN FALSE
    ELSE ZeroPercentage(k, n).floor >= zero_percent

\* the shared steps with the threshold condition taken over the rows as they
\* were before the rows without data were dropped
CleanDataColumns_overlapping(df, data, zero_percent) ==
    LET replaced == MapCells(df, data, ReplaceMissing)
        not_empty == TakeRows(replaced,
                        RowsWhere(replaced, LAMBDA r : ~(\A j \in data : isna(r[j]))))
        numeric == MapCells(MapCells(not_empty, data, to_numeric), data, fillna)
        all_numeric == MapCells(MapCells(replaced, data, to_numeric), data, fillna)
        exceeds(r) == condition_exceed_zero(zero_counts(r, data),
                                            Cardinality(data), zero_percent)
        kept == TakeRows(numeric, RowsWhere(numeric, LAMBDA r : ~exceeds(r)))
    IN  [numeric |-> numeric,
         df |-> kept,
         rows_removed_empty |-> Len(replaced.rows) - Len(not_empty.rows),
         rows_removed_threshold |-> Len(RowsWhere(all_numeric, exceeds))]

\* data_cleaner.py lines 24-46 and 73-95: the steps the two cleaners share,
\* on the rows left by the first filter, over the data columns at `data`
CleanDataColumns(df, data, zero_percent) ==
    LET replaced == MapCells(df, data, ReplaceMissing)
        not_empty == TakeRows(replaced,
                        RowsWhere(replaced, LAMBDA r : ~(\A j \in data : isna(r[j]))))
        numeric == MapCells(MapCells(not_empty, data, to_numeric), data, fillna)
        kept == TakeRows(numeric,
                    RowsWhere(numeric,
                        LAMBDA r : ~condition_exceed_zero(zero_counts(r, data),
                                                         Cardinality(data), zero_percent)))
    IN  [numeric |-> numeric,
         df |-> kept,
         rows_removed_empty |-> Len(replaced.rows) - Len(not_empty.rows),
         rows_removed_threshold |-> Len(numeric.rows) - Len(kept.rows)]

\* DataCleaner.clean_merged_df(merged_df, zero_percent) for a frame that has
\* an Actual_Gene_Name column: (cleaned_df, total_rows_removed), and the frame
\* as it enters the threshold step
clean_merged_df(merged_df, zero_percent) ==
    LET agn == ColPos(merged_df.cols, ACTUAL_GENE_NAME)
        not_dot == TakeRows(merged_df, RowsWhere(merged_df, LAMBDA r : r[agn] # Word(".")))
        data == {j \in 1..Len(merged_df.cols) :
                    merged_df.cols[j] \notin {GENE_CODE, ACTUAL_GENE_NAME}}
        c == CleanDataColumns(not_dot, data, zero_percent)
    IN  [df |-> c.df,
         numeric |-> c.numeric,
         removed |-> (Len(merged_df.rows) - Len(not_dot.rows))
                        + c.rows_removed_empty + c.rows_removed_threshold]

\* DataCleaner.clean_gene_expression_df(gene_expression_df, zero_percent)
clean_gene_expression_df(gene_expression_df, zero_percent) ==
    LET invalid(r) == isna(r[1]) \/ (r[1].t = "str" /\ Strip(r[1].s) = <<>>)
        valid == TakeRows(gene_expression_df,
                    RowsWhere(gene_expression_df, LAMBDA r : ~invalid(r)))
        data == 2..Len(gene_expression_df.cols)
        c == CleanDataColumns(valid, data, zero_percent)
    IN  [df |-> c.df,
         numeric |-> c.numeric,
         removed |-> (Len(gene_expression_df.rows) - Len(valid.rows))
                        + c.rows_removed_empty + c.rows_removed_threshold]

-----------------------------------------------------------------------------
(* DataMerger: src/tcga/data/data_merger.py *)

\* what a call returns, or the exception it raises
Returned(df, removed) == [raised |-> "", msg |-> <<>>, df |-> df, removed |-> removed]

Raised(type, msg) ==
    [raised |-> type, msg |-> msg, df |-> [cols |-> <<>>, index |-> <<>>, rows |-> <<>>],
     removed |-> 0]

\* list.remove(x): the list without the first x
ListRemove(l, x) ==
    LET p == ColPos(l, x) IN SubSeq(l, 1, p - 1) \o SubSeq(l, p + 1, Len(l))

\* list.insert(i, x), i counted from 0
ListInsert(l, i, x) ==
    LET at == IF i > Len(l) THEN Len(l) ELSE i
    IN  SubSeq(l, 1, at) \o <<x>> \o SubSeq(l, at + 1, Len(l))

\* df[cols]: the columns named, in the order named
SelectCols(df, cols) ==
    [df EXCEPT !.cols = cols,
               !.rows = [i \in 1..Len(df.rows) |->
                            [j \in 1..Len(cols) |-> df.rows[i][ColPos(df.cols, cols[j])]]]]

RECURSIVE Flatten(_)
Flatten(ss) == IF ss = <<>> THEN <<>> ELSE Head(ss) \o Flatten(Tail(ss))

\* pd.merge(left, right, on='Gene_Code', how='left') of frames that share no
\* other column name: every left row, in order, once per right row with the
\* same key (a null key matches a null key), or once with nulls
pd_merge_left(left, right) ==
    LET kl == ColPos(left.cols, GENE_CODE)
        kr == ColPos(right.cols, GENE_CODE)
        others == SelectSeq([j \in 1..Len(right.cols) |-> j], LAMBDA j : j # kr)
        matches(lrow) ==
            SelectSeq([i \in 1..Len(right.rows) |-> i],
                      LAMBDA i : right.rows[i][kr] = lrow[kl])
        joined(lrow) ==
            IF matches(lrow) = <<>>
            THEN <<lrow \o [j \in 1..Len(others) |-> NaN]>>
            ELSE [x \in 1..Len(matches(lrow)) |->
                    lrow \o [j \in 1..Len(others) |->
                                right.rows[matches(lrow)[x]][others[j]]]]
    IN  Frame(left.cols \o [j \in 1..Len(others) |-> right.cols[others[j]]],
              Flatten([i \in 1..Len(left.rows) |-> joined(left.rows[i])]))

\* data_merger.py lines 51-62: 'Actual_Gene_Name' moved right after 'Gene_Code'
ReorderColumns(merged_df) ==
    LET cols == merged_df.cols
        gene_code_index == ColPos(cols, GENE_CODE) - 1
    IN  SelectCols(merged_df,
                   ListInsert(ListRemove(cols, ACTUAL_GENE_NAME),
                              gene_code_index + 1, ACTUAL_GENE_NAME))

MergeErrorPrefix == "Error during merging and cleaning: "

MissingInMethylation == "'Gene_Code' column missing in methylation DataFrame."

MissingInMapping == "'Gene_Code' column missing in gene mapping DataFrame."

\* the check of the mapping side reports the methylation side: a copy-paste slip
MissingKeyMessage_WrongSide(methylation_df, gene_mapping_df) ==
    IF ~HasCol(methylation_df.cols, GENE_CODE) THEN <<MissingInMethylation>>
    ELSE IF ~HasCol(gene_mapping_df.cols, GENE_CODE) THEN <<MissingInMethylation>>
    ELSE <<>>

\* data_merger.py lines 37-45: the message of the first side found without
\* a 'Gene_Code' column, or none
MissingKeyMessage(methylation_df, gene_mapping_df) ==
    IF ~HasCol(methylation_df.cols, GENE_CODE) THEN <<MissingInMethylation>>
    ELSE IF ~HasCol(gene_mapping_df.cols, GENE_CODE) THEN <<MissingInMapping>>
    ELSE <<>>

\* DataMerger.merge_and_clean(methylation_df, gene_mapping_df, zero_percent);
\* whatever is raised inside is raised again as a ValueError with a prefix
merge_and_clean(methylation_df, gene_mapping_df, zero_percent) ==
    IF MissingKeyMessage(methylation_df, gene_mapping_df) # <<>>
    THEN Raised("ValueError",
                <<MergeErrorPrefix>> \o MissingKeyMessage(methylation_df, gene_mapping_df))
    ELSE LET merged_df == pd_merge_left(methylation_df, gene_mapping_df)
         IN  IF ~HasCol(merged_df.cols, ACTUAL_GENE_NAME)
             THEN \* clean_merged_df raises KeyError('Actual_Gene_Name')
                  Raised("ValueError", <<MergeErrorPrefix, "'Actual_Gene_Name'">>)
             ELSE LET c == clean_merged_df(ReorderColumns(merged_df), zero_percent)
                  IN  Returned(c.df, c.removed)

-----------------------------------------------------------------------------
(* FileHandler: src/tcga/data/file_handler.py *)

\* str.lower() of an atom of the model's column names
LowerAtom(a) ==
    CASE a = "Gene_Code" -> "gene_code"
      [] a = "Actual_Gene_Name" -> "actual_gene_name"
      [] a = "Probe" -> "probe"
      [] a = "PatientA" -> "patienta"
      [] a = "PatientB" -> "patientb"
      [] OTHER -> a

Lower(s) == [i \in 1..Len(s) |-> LowerAtom(s[i])]

\* Series.duplicated(): the positions whose key is that of an earlier row
Duplicated(keys) == {i \in 1..Len(keys) : \E j \in 1..(i - 1) : keys[j] = keys[i]}

\* df[df['Gene_Code'].duplicated()]['Gene_Code'].unique()
DuplicateKeys(keys) ==
    LET dups == SelectSeq([i \in 1..Len(keys) |-> i], LAMBDA i : i \in Duplicated(keys))
        first == SelectSeq(dups, LAMBDA i : \A j \in Duplicated(keys) :
                                                j < i => keys[j] # keys[i])
    IN  [x \in 1..Len(first) |-> keys[first[x]]]

\* an upload that keeps the methylation table the handler already holds
upload_file_keep_loaded(handler, file, file_type) ==
    LET reading == <<"Error reading '", file.name, "': ">>
        fail(msg) == [fh |-> handler, res |-> Raised("ValueError", reading \o msg)]
    IN  IF ~file.exists
        THEN [fh |-> handler,
              res |-> Raised("FileNotFoundError",
                             <<"The file '", file.name, "' does not exist.">>)]
        ELSE IF file_type = "methylation"
        THEN [fh |-> IF handler.methylation_df = <<>>
                     THEN [handler EXCEPT !.methylation_df = <<file.df>>]
                     ELSE handler,
              res |-> Returned(file.df, 0)]
        ELSE IF file_type = "gene_mapping"
        THEN IF Len(file.df.cols) < 2
             THEN fail(<<"Gene mapping file '", file.name,
                         "' must have at least two columns.">>)
             ELSE LET df == [SelectCols(file.df, SubSeq(file.df.cols, 1, 2))
                                EXCEPT !.cols = <<GENE_CODE, ACTUAL_GENE_NAME>>]
                      keys == [i \in 1..Len(df.rows) |-> df.rows[i][1]]
                  IN  IF Duplicated(keys) # {}
                      THEN fail(<<"Gene mapping file '", file.name,
                                  "' contains duplicate Gene_Code entries: ">>)
                      ELSE [fh |-> [handler EXCEPT !.gene_mapping_df = <<df>>],
                            res |-> Returned(df, 0)]
        ELSE fail(<<"Unknown file type: ", file_type>>)

\* FileHandler.upload_file(file_path, file_type), where read_csv of the file
\* gives file.df: the handler after the call, and what the call returned
upload_file(handler, file, file_type) ==
    LET reading == <<"Error reading '", file.name, "': ">>
        fail(msg) == [fh |-> handler, res |-> Raised("ValueError", reading \o msg)]
    IN  IF ~file.exists
        THEN [fh |-> handler,
              res |-> Raised("FileNotFoundError",
                             <<"The file '", file.name, "' does not exist.">>)]
        ELSE IF file_type = "methylation"
        THEN [fh |-> [handler EXCEPT !.methylation_df = <<file.df>>],
              res |-> Returned(file.df, 0)]
        ELSE IF file_type = "gene_mapping"
        THEN IF Len(file.df.cols) < 2
             THEN fail(<<"Gene mapping file '", file.name,
                         "' must have at least two columns.">>)
             ELSE LET df == [SelectCols(file.df, SubSeq(file.df.cols, 1, 2))
                                EXCEPT !.cols = <<GENE_CODE, ACTUAL_GENE_NAME>>]
                      keys == [i \in 1..Len(df.rows) |-> df.rows[i][1]]
                      dup == DuplicateKeys(keys)
                  IN  IF Duplicated(keys) # {}
                      THEN IF \E x \in 1..Len(dup) : dup[x].t # "str"
                           THEN \* ', '.join raises TypeError
                                fail(<<"sequence item: expected str instance">>)
                           ELSE fail(<<"Gene mapping file '", file.name,
                                       "' contains duplicate Gene_Code entries: ">>
                                     \o Flatten([x \in 1..Len(dup) |-> dup[x].s]))
                      ELSE [fh |-> [handler EXCEPT !.gene_mapping_df = <<df>>],
                            res |-> Returned(df, 0)]
        ELSE fail(<<"Unknown file type: ", file_type>>)

\* FileHandler.clean_merged_df(merged_df, zero_percent): the steps of
\* DataCleaner.clean_merged_df, written out again in file_handler.py
FileHandler_clean_merged_df(merged_df, zero_percent) ==
    LET agn == ColPos(merged_df.cols, ACTUAL_GENE_NAME)
        not_dot == TakeRows(merged_df, RowsWhere(merged_df, LAMBDA r : r[agn] # Word(".")))
        data == {j \in 1..Len(merged_df.cols) :
                    merged_df.cols[j] \notin {GENE_CODE, ACTUAL_GENE_NAME}}
        c == CleanDataColumns(not_dot, data, zero_percent)
    IN  [df |-> c.df,
         numeric |-> c.numeric,
         removed |-> (Len(merged_df.rows) - Len(not_dot.rows))
                        + c.rows_removed_empty + c.rows_removed_threshold]

\* FileHandler.merge_files(zero_percent): the handler after the call (the
\* first methylation column may have been renamed), and what it returned
merge_files(handler, zero_percent) ==
    IF handler.methylation_df = <<>>
    THEN [fh |-> handler,
          res |-> Raised("ValueError",
                    <<"No methylation file uploaded. Please upload a methylation file.">>)]
    ELSE IF handler.gene_mapping_df = <<>>
    THEN [fh |-> handler,
          res |-> Raised("ValueError",
                    <<"No gene mapping file uploaded. Please upload a gene mapping file.">>)]
    ELSE LET old == handler.methylation_df[1]
             renamed == IF Lower(old.cols[1]) # <<"gene_code">>
                        THEN [old EXCEPT !.cols[1] = GENE_CODE]
                        ELSE old
             after == [handler EXCEPT !.methylation_df = <<renamed>>]
             mapping == handler.gene_mapping_df[1]
             fail(msg) == [fh |-> after,
                           res |-> Raised("ValueError", <<"Error during merging: ">> \o msg)]
         IN  IF ~HasCol(renamed.cols, GENE_CODE)
             THEN fail(<<"'Gene_Code'">>)
             ELSE IF Cardinality({j \in 1..Len(renamed.cols) : renamed.cols[j] = GENE_CODE}) > 1
             THEN fail(<<"The column label 'Gene_Code' is not unique.">>)
             ELSE LET c == FileHandler_clean_merged_df(
                                ReorderColumns(pd_merge_left(renamed, mapping)), zero_percent)
                  IN  [fh |-> after, res |-> Returned(c.df, c.removed)]

-----------------------------------------------------------------------------
(* Inputs of the cleaners *)

\* the zero_percent values tried: the GUI accepts 0..100, the web form any number
Thresholds == {0, 50, 58, 100, 150}

\* what a data cell of a parsed file may hold
CellVocab ==
    {NaN, Word("NA"), Word("na"), Word("."), Num(0), Num(1),
     Word("0"), Word("7"), Word("abc")}

PatientCols == <<<<"PatientA">>, <<"PatientB">>>>

MergedCols == <<GENE_CODE, ACTUAL_GENE_NAME>> \o PatientCols

ExpressionCols == <<GENE_NAME>> \o PatientCols

\* every row of a merged frame with two data columns
MergedRows ==
    {<<Word("cg01"), name, c1, c2>> :
        name \in {Word("GENE_A"), Word("."), NaN}, c1 \in CellVocab, c2 \in CellVocab}

\* every row of an expression frame with two data columns
ExpressionRows ==
    {<<gene, c1, c2>> :
        gene \in {Word("GENE_A"), NaN, Str(<<" ">>)}, c1 \in CellVocab, c2 \in CellVocab}

\* the rows that frames of several rows are made of
MergedRowPool ==
    {<<Word("cg01"), Word("GENE_A"), Num(1), Num(1)>>,
     <<Word("cg02"), Word("GENE_B"), Num(0), Num(1)>>,
     <<Word("cg03"), Word("."), Num(1), Num(1)>>,
     <<Word("cg04"), Word("GENE_C"), Word("NA"), Word("0")>>,
     <<Word("cg05"), NaN, Word("7"), Word("abc")>>}

ExpressionRowPool ==
    {<<Word("GENE_A"), Num(1), Num(1)>>,
     <<Word("GENE_B"), Num(0), Num(1)>>,
     <<NaN, Num(1), Num(1)>>,
     <<Word("GENE_C"), Word("NA"), Word("0")>>,
     <<Word("GENE_D"), Word("7"), Word("abc")>>}

\* the sequences over S of length at most n
SeqsUpTo(S, n) == UNION {[1..len -> S] : len \in 0..n}

\* a row of n data cells of which the first k are 0: (zeros, columns)
WideShapes == {<<28, 50>>, <<29, 50>>, <<30, 50>>}

WideCols(n) == [i \in 1..n |-> <<"Patient" \o ToString(i)>>]

WideCells(k, n) == [i \in 1..n |-> IF i <= k THEN Num(0) ELSE Num(1)]

\* frames of identifier columns alone: no column of data
IdentifierOnlyMerged ==
    {Frame(<<GENE_CODE, ACTUAL_GENE_NAME>>, rs) :
        rs \in SeqsUpTo({<<Word("cg01"), Word("GENE_A")>>,
                         <<Word("cg02"), Word("GENE_B")>>}, MaxRows)}

IdentifierOnlyExpression ==
    {Frame(<<GENE_NAME>>, rs) :
        rs \in SeqsUpTo({<<Word("GENE_A")>>, <<Word("GENE_B")>>}, MaxRows)}

MergedFrames ==
    {Frame(MergedCols, <<r>>) : r \in MergedRows}
    \cup IdentifierOnlyMerged
    \cup {Frame(MergedCols, rs) : rs \in SeqsUpTo(MergedRowPool, MaxRows)}
    \cup {Frame(<<GENE_CODE, ACTUAL_GENE_NAME>> \o WideCols(w[2]),
                <<<<Word("cg01"), Word("GENE_A")>> \o WideCells(w[1], w[2])>>) :
            w \in WideShapes}

ExpressionFrames ==
    {Frame(ExpressionCols, <<r>>) : r \in ExpressionRows}
    \cup IdentifierOnlyExpression
    \cup {Frame(ExpressionCols, rs) : rs \in SeqsUpTo(ExpressionRowPool, MaxRows)}
    \cup {Frame(<<GENE_NAME>> \o WideCols(w[2]),
                <<<<Word("GENE_A")>> \o WideCells(w[1], w[2])>>) :
            w \in WideShapes}

-----------------------------------------------------------------------------
(* The cleaners applied: once, and again to their own output *)

NoFrame == Frame(<<>>, <<>>)

NoResult == [df |-> NoFrame, numeric |-> NoFrame, removed |-> 0]

\* FileHandler.__init__: no frame loaded
NoFiles == [methylation_df |-> <<>>, gene_mapping_df |-> <<>>]

InitClean ==
    /\ pc = "start"
    /\ inp \in [kind : {"merged"}, df : MergedFrames, zero_percent : Thresholds]
               \cup [kind : {"expression"}, df : ExpressionFrames, zero_percent : Thresholds]
    /\ out = NoResult
    /\ again = NoResult
    /\ fh = NoFiles

CleanMerged ==
    /\ pc = "start"
    /\ inp.kind = "merged"
    /\ out' = clean_merged_df(inp.df, inp.zero_percent)
    /\ pc' = "cleaned"
    /\ UNCHANGED <<inp, again, fh>>

CleanExpression ==
    /\ pc = "start"
    /\ inp.kind = "expression"
    /\ out' = clean_gene_expression_df(inp.df, inp.zero_percent)
    /\ pc' = "cleaned"
    /\ UNCHANGED <<inp, again, fh>>

CleanMergedAgain ==
    /\ pc = "cleaned"
    /\ inp.kind = "merged"
    /\ again' = clean_merged_df(out.df, inp.zero_percent)
    /\ pc' = "recleaned"
    /\ UNCHANGED <<inp, out, fh>>

CleanExpressionAgain ==
    /\ pc = "cleaned"
    /\ inp.kind = "expression"
    /\ again' = clean_gene_expression_df(out.df, inp.zero_percent)
    /\ pc' = "recleaned"
    /\ UNCHANGED <<inp, out, fh>>

\* FileHandler().clean_merged_df(merged_df, zero_percent)
FileHandlerCleanMerged ==
    /\ pc = "start"
    /\ inp.kind = "merged"
    /\ again' = FileHandler_clean_merged_df(inp.df, inp.zero_percent)
    /\ pc' = "handler_cleaned"
    /\ UNCHANGED <<inp, out, fh>>

NextClean ==
    \/ CleanMerged
    \/ CleanExpression
    \/ CleanMergedAgain
    \/ CleanExpressionAgain
    \/ FileHandlerCleanMerged

SpecClean == InitClean /\ [][NextClean]_vars

-----------------------------------------------------------------------------
(* Inputs of the merge *)

\* the zero_percent the merges are run with: the web form's default
MergeThresholds == {100}

\* the column layouts of a methylation file: key first, key last, no key
MethylationLayouts ==
    {<<GENE_CODE, <<"PatientA">>>>, <<<<"PatientA">>, GENE_CODE>>,
     <<<<"Probe">>, <<"PatientA">>>>}

\* the column layouts of a mapping file: key first, key last, no key, key only
MappingLayouts ==
    {<<GENE_CODE, ACTUAL_GENE_NAME>>, <<ACTUAL_GENE_NAME, GENE_CODE>>,
     <<<<"Wrong_Column">>, <<"Name">>>>, <<GENE_CODE>>}

\* a probe and its value for PatientA
MethylationPool ==
    {[key |-> Word("A"), val |-> Num(1)], [key |-> Word("C"), val |-> Num(1)],
     [key |-> NaN, val |-> Num(1)]}

\* a probe and its gene name
MappingPool ==
    {[key |-> Word("A"), val |-> Word("G1")], [key |-> Word("A"), val |-> Word("G2")],
     [key |-> Word("D"), val |-> Word("G3")]}

\* the frame of the records recs laid out in the columns cols: the key
\* column is the one named Gene_Code, or the first when none is
LayOut(cols, recs) ==
    LET keycol == IF HasCol(cols, GENE_CODE) THEN ColPos(cols, GENE_CODE) ELSE 1
    IN  Frame(cols, [i \in 1..Len(recs) |->
                        [j \in 1..Len(cols) |-> IF j = keycol THEN recs[i].key
                                                              ELSE recs[i].val]])

MethylationFrames ==
    {LayOut(cols, recs) : cols \in MethylationLayouts,
                          recs \in SeqsUpTo(MethylationPool, MaxRows)}

MappingFrames ==
    {LayOut(cols, recs) : cols \in MappingLayouts, recs \in SeqsUpTo(MappingPool, MaxRows)}

File(name, df) == [exists |-> TRUE, name |-> name, df |-> df]

-----------------------------------------------------------------------------
(* The merge: by DataMerger, and by FileHandler after two uploads *)

InitMerge ==
    /\ pc = "start"
    /\ inp \in [kind : {"merge"}, methylation : MethylationFrames,
                mapping : MappingFrames, zero_percent : MergeThresholds]
    /\ out = Returned(NoFrame, 0)
    /\ again = NoResult
    /\ fh = NoFiles

\* DataMerger().merge_and_clean(methylation, mapping, zero_percent)
MergeAndClean ==
    /\ pc = "start"
    /\ out' = merge_and_clean(inp.methylation, inp.mapping, inp.zero_percent)
    /\ pc' = "merged"
    /\ UNCHANGED <<inp, again, fh>>

\* file_handler.upload_file(methylation_path, 'methylation')
UploadMethylation ==
    /\ pc = "start"
    /\ LET r == upload_file(fh, File("methylation.txt", inp.methylation), "methylation")
       IN  /\ fh' = r.fh
           /\ out' = r.res
           /\ pc' = IF r.res.raised = "" THEN "methylation_uploaded" ELSE "failed"
    /\ UNCHANGED <<inp, again>>

\* file_handler.upload_file(gene_mapping_path, 'gene_mapping')
UploadGeneMapping ==
    /\ pc = "methylation_uploaded"
    /\ LET r == upload_file(fh, File("gene_mapping.txt", inp.mapping), "gene_mapping")
       IN  /\ fh' = r.fh
           /\ out' = r.res
           /\ pc' = IF r.res.raised = "" THEN "mapping_uploaded" ELSE "failed"
    /\ UNCHANGED <<inp, again>>

\* file_handler.merge_files(zero_percent)
MergeFiles ==
    /\ pc = "mapping_uploaded"
    /\ LET r == merge_files(fh, inp.zero_percent)
       IN  /\ fh' = r.fh
           /\ out' = r.res
           /\ pc' = "files_merged"
    /\ UNCHANGED <<inp, again>>

NextMerge == MergeAndClean \/ UploadMethylation \/ UploadGeneMapping \/ MergeFiles

SpecMerge == InitMerge /\ [][NextMerge]_vars

-----------------------------------------------------------------------------
(* DataPhenotype: src/tcga/data/data_phenotype.py *)

\* DataFrame.cast(pl.Utf8) of a cell: a float as its text, a null stays null
cast_utf8(c) == IF c.t = "num" THEN Str(<<ToString(c.n) \o ".0">>) ELSE c

\* str(value or ""): a null, a zero and the empty text all give ""
str_or_empty(c) ==
    IF c.t = "str" THEN c
    ELSE IF c.t = "num" /\ c.n # 0 THEN Str(<<ToString(c.n)>>)
    ELSE Str(<<>>)

\* str(row[id_col]).strip(): the key of a phenotype row in pheno_map
patient_key(c) ==
    IF c.t = "str" THEN Strip(c.s)
    ELSE IF c.t = "num" THEN <<ToString(c.n)>>
    ELSE <<"None">>

\* str(pheno_map.get(str(patient).strip(), {}).get(char, "") or ""): the
\* last phenotype row with the patient's key decides
pheno_value(phenotype_df, patient, char) ==
    LET hits == {i \in 1..Len(phenotype_df.rows) :
                    patient_key(phenotype_df.rows[i][1]) = Strip(patient)}
    IN  IF hits = {} THEN Str(<<>>)
        ELSE LET last == CHOOSE i \in hits : \A j \in hits : j <= i
             IN  str_or_empty(phenotype_df.rows[last][ColPos(phenotype_df.cols, char)])

\* pl.concat([df_new, final_df.cast(pl.Utf8)]): one row per characteristic,
\* in the order selected, before the rows of final_df; id_cells(char, c) is
\* the cell of the new row in a column that holds no patient
with_phenotype_rows(final_df, phenotype_df, selected_chars, patients, id_cells(_, _)) ==
    Frame(final_df.cols,
          [x \in 1..Len(selected_chars) |->
              [j \in 1..Len(final_df.cols) |->
                  IF j \in patients
                  THEN pheno_value(phenotype_df, final_df.cols[j], selected_chars[x])
                  ELSE id_cells(selected_chars[x], final_df.cols[j])]]
          \o [i \in 1..Len(final_df.rows) |->
                [j \in 1..Len(final_df.cols) |-> cast_utf8(final_df.rows[i][j])]])

\* what merge_into_files returns, or raises
Annotated(meth, expr) == [raised |-> "", msg |-> <<>>, meth |-> meth, expr |-> expr]

AnnotateRaised(type, msg) == [raised |-> type, msg |-> msg, meth |-> <<>>, expr |-> <<>>]

\* a list in the opposite order
ReverseList(l) == [i \in 1..Len(l) |-> l[Len(l) + 1 - i]]

\* the rows of the characteristics built in the opposite order: the loops
\* at lines 72 and 92 run over reversed(selected_chars)
merge_phenotype_rows_reversed(final_meth_df, final_expr_df, pheno, selected_chars) ==
    LET wanted == <<pheno.cols[1]>> \o selected_chars
    IN  IF \E x \in 1..Len(wanted) : ~HasCol(pheno.cols, wanted[x])
        THEN AnnotateRaised("ColumnNotFoundError", selected_chars)
        ELSE IF \E x, y \in 1..Len(wanted) : x # y /\ wanted[x] = wanted[y]
        THEN AnnotateRaised("DuplicateError", selected_chars)
        ELSE Annotated(
               IF final_meth_df = <<>> THEN <<>>
               ELSE <<with_phenotype_rows(final_meth_df[1], pheno,
                           ReverseList(selected_chars),
                           3..Len(final_meth_df[1].cols),
                           LAMBDA char, c : IF c = GENE_CODE THEN Str(<<>>)
                                            ELSE Str(char))>>,
               IF final_expr_df = <<>> THEN <<>>
               ELSE <<with_phenotype_rows(final_expr_df[1], pheno,
                           ReverseList(selected_chars),
                           2..Len(final_expr_df[1].cols),
                           LAMBDA char, c : Str(char))>>)

\* data_phenotype.py lines 62-105: the rows of the selected characteristics
\* put before the rows of each frame that is given
merge_phenotype_rows(final_meth_df, final_expr_df, pheno, selected_chars) ==
    LET wanted == <<pheno.cols[1]>> \o selected_chars
    IN  IF \E x \in 1..Len(wanted) : ~HasCol(pheno.cols, wanted[x])
        THEN AnnotateRaised("ColumnNotFoundError", selected_chars)
        ELSE IF \E x, y \in 1..Len(wanted) : x # y /\ wanted[x] = wanted[y]
        THEN AnnotateRaised("DuplicateError", selected_chars)
        ELSE IF final_meth_df # <<>>
                   /\ \E j \in 1..Len(final_meth_df[1].cols) :
                           /\ j <= 2
                           /\ final_meth_df[1].cols[j] \notin {GENE_CODE, ACTUAL_GENE_NAME}
        THEN \* df_new_meth.select(final_meth_df.columns) finds no such column
             AnnotateRaised("ColumnNotFoundError", SubSeq(final_meth_df[1].cols, 1, 2))
        ELSE Annotated(
               IF final_meth_df = <<>> THEN <<>>
               ELSE <<with_phenotype_rows(final_meth_df[1], pheno, selected_chars,
                           3..Len(final_meth_df[1].cols),
                           LAMBDA char, c : IF c = GENE_CODE THEN Str(<<>>)
                                            ELSE Str(char))>>,
               IF final_expr_df = <<>> THEN <<>>
               ELSE <<with_phenotype_rows(final_expr_df[1], pheno, selected_chars,
                           2..Len(final_expr_df[1].cols),
                           LAMBDA char, c : Str(char))>>)

\* the guard without its `phenotype_df is None`: None.columns raises
merge_into_files_no_none_check(final_meth_df, final_expr_df, phenotype_df, selected_chars) ==
    IF selected_chars = <<>>
    THEN Annotated(final_meth_df, final_expr_df)
    ELSE IF phenotype_df = <<>>
    THEN AnnotateRaised("AttributeError",
                        <<"'NoneType' object has no attribute 'columns'">>)
    ELSE merge_phenotype_rows(final_meth_df, final_expr_df, phenotype_df[1], selected_chars)

\* DataPhenotype.merge_into_files(final_meth_df, final_expr_df, phenotype_df,
\* selected_chars): a frame that is None is <<>>, one that is given is <<df>>;
\* selected_chars that is None or [] is <<>>
merge_into_files(final_meth_df, final_expr_df, phenotype_df, selected_chars) ==
    IF selected_chars = <<>> \/ phenotype_df = <<>>
    THEN Annotated(final_meth_df, final_expr_df)
    ELSE merge_phenotype_rows(final_meth_df, final_expr_df, phenotype_df[1], selected_chars)

-----------------------------------------------------------------------------
(* Inputs of the annotation *)

AGE == <<"age">>

STAGE == <<"stage">>

\* lists of selected characteristics: none, one, two in both orders, one
\* that the phenotype table does not have
SelectedLists == {<<>>, <<AGE>>, <<AGE, STAGE>>, <<STAGE, AGE>>, <<<<"grade">>>>}

\* phenotype rows: (patient id, age, stage); an id with blanks around it, a
\* second row for one patient, an age of 0 and a missing stage among them
PhenotypePool ==
    {<<Word("PatientA"), Num(7), Word("I")>>,
     <<Str(<<" ", "PatientB", " ">>), Num(0), NaN>>,
     <<Word("PatientA"), Num(1), Word("II")>>}

PhenotypeFrames ==
    {Frame(<<<<"PatientID">>, AGE, STAGE>>, rows) : rows \in SeqsUpTo(PhenotypePool, MaxRows)}

\* final methylation frames: patient columns with and without a phenotype row
FinalMethFrames ==
    {Frame(<<GENE_CODE, ACTUAL_GENE_NAME, <<"PatientA">>, <<"PatientB">>, <<"PatientC">>>>, rows) :
        rows \in {<<>>,
                  <<<<Word("cg01"), Word("GENE_A"), Num(1), Num(0), Num(7)>>>>,
                  <<<<Word("cg01"), Word("GENE_A"), Num(1), Num(0), Num(7)>>,
                    <<Word("cg02"), Word("GENE_B"), Num(7), Num(1), NaN>>>>}}

FinalExprFrames ==
    {Frame(<<GENE_NAME, <<"PatientA">>, <<"PatientB">>, <<"PatientC">>>>, rows) :
        rows \in {<<>>,
                  <<<<Word("GENE_A"), Num(1), Num(0), Num(7)>>>>,
                  <<<<Word("GENE_B"), Num(7), Num(7), Num(1)>>,
                    <<Word("GENE_A"), Num(1), Num(0), Num(7)>>>>}}

\* a frame that may be None
Optional(S) == {<<>>} \cup {<<x>> : x \in S}

-----------------------------------------------------------------------------
(* The annotation: DataPhenotype.merge_into_files on final frames *)

InitAnnotate ==
    /\ pc = "start"
    /\ inp \in [kind : {"annotate"}, meth : Optional(FinalMethFrames),
                expr : Optional(FinalExprFrames), phenotype : Optional(PhenotypeFrames),
                selected : SelectedLists]
    /\ out = Annotated(<<>>, <<>>)
    /\ again = NoResult
    /\ fh = NoFiles

\* DataPhenotype().merge_into_files(meth, expr, phenotype, selected)
MergeIntoFiles ==
    /\ pc = "start"
    /\ out' = merge_into_files(inp.meth, inp.expr, inp.phenotype, inp.selected)
    /\ pc' = "annotated"
    /\ UNCHANGED <<inp, again, fh>>

NextAnnotate == MergeIntoFiles

SpecAnnotate == InitAnnotate /\ [][NextAnnotate]_vars

-----------------------------------------------------------------------------
(* Controller: src/tcga/controller/controller.py.  It calls a FileHandler   *)
(* that also loads an expression and a phenotype file and cleans the       *)
(* expression frame; file_handler.py has none of the three, and they are   *)
(* written here from the specification's Loader and Cleaner.               *)

\* the handler of a new Controller: no frame loaded
NoFilesLoaded ==
    [methylation_df |-> <<>>, gene_mapping_df |-> <<>>,
     gene_expression_df |-> <<>>, phenotype_df |-> <<>>]

\* upload_file(path, 'gene_expression'): the Loader's table, its key column
\* under the canonical name Gene_Name
upload_gene_expression(handler, file) ==
    [fh |-> [handler EXCEPT !.gene_expression_df =
                                <<[file.df EXCEPT !.cols[1] = GENE_NAME]>>],
     res |-> Returned(file.df, 0)]

\* upload_file(path, 'phenotype'): the Loader's table, its columns as they are
upload_phenotype(handler, file) ==
    [fh |-> [handler EXCEPT !.phenotype_df = <<file.df>>],
     res |-> Returned(file.df, 0)]

\* file_handler.clean_gene_expression_df(zero_percent): DataCleaner's cleaning
\* of the loaded expression frame, as (cleaned_df, rows_removed)
FileHandler_clean_gene_expression_df(handler, zero_percent) ==
    clean_gene_expression_df(handler.gene_expression_df[1], zero_percent)

\* self.file_handler.upload_file(path, file_type), as the controller uses it
controller_upload(handler, file, file_type) ==
    IF file_type = "gene_expression" /\ file.exists THEN upload_gene_expression(handler, file)
    ELSE IF file_type = "phenotype" /\ file.exists THEN upload_phenotype(handler, file)
    ELSE upload_file(handler, file, file_type)

\* the uploads of a scenario, in their order, up to the first that raises
RECURSIVE upload_each(_, _)
upload_each(handler, uploads) ==
    IF uploads = <<>> THEN [fh |-> handler, res |-> Returned(NoFrame, 0)]
    ELSE LET r == controller_upload(handler, uploads[1].file, uploads[1].type)
         IN  IF r.res.raised # "" THEN r ELSE upload_each(r.fh, Tail(uploads))

\* the values process_files returns
PyTable(df) == [py |-> "DataFrame", df |-> df, n |-> 0]

PyInt(n) == [py |-> "int", df |-> NoFrame, n |-> n]

\* what process_files returns (a tuple), or raises
ProcessReturned(ret) == [raised |-> "", msg |-> <<>>, ret |-> ret]

ProcessRaised(type, msg) == [raised |-> type, msg |-> msg, ret |-> <<>>]

NoCommonGenes == "No common genes found between methylation and gene expression files."

NoCommonPatients ==
    "No common patient columns found between methylation and gene expression files."

InvalidCombination ==
    "Invalid combination of files. Please upload either only gene expression, or methylation with gene mapping, or all three files (optionally with phenotype)."

\* controller.py lines 97 and 51: the cells of the second methylation column
\* that are also cells of the first expression column
common_genes(cleaned_meth_df, cleaned_expr_df) ==
    {cleaned_meth_df.rows[i][2] : i \in 1..Len(cleaned_meth_df.rows)}
        \cap {cleaned_expr_df.rows[i][1] : i \in 1..Len(cleaned_expr_df.rows)}

\* the common patients in the order of the expression table's columns
common_patients_expression_order(cleaned_meth_df, cleaned_expr_df) ==
    LET meth_patients == SubSeq(cleaned_meth_df.cols, 3, Len(cleaned_meth_df.cols))
        expr_patients == SubSeq(cleaned_expr_df.cols, 2, Len(cleaned_expr_df.cols))
    IN  SelectSeq(expr_patients, LAMBDA col : HasCol(meth_patients, col))

\* controller.py lines 103-107 and 57-61
common_patients(cleaned_meth_df, cleaned_expr_df) ==
    LET meth_patients == SubSeq(cleaned_meth_df.cols, 3, Len(cleaned_meth_df.cols))
        expr_patients == SubSeq(cleaned_expr_df.cols, 2, Len(cleaned_expr_df.cols))
    IN  SelectSeq(meth_patients, LAMBDA col : HasCol(expr_patients, col))

\* the alignment without lines 99-100 and 53-54: no common gene is no error
align_no_gene_check(cleaned_meth_df, cleaned_expr_df) ==
    LET genes == common_genes(cleaned_meth_df, cleaned_expr_df)
        filtered_meth == TakeRows(cleaned_meth_df,
                            RowsWhere(cleaned_meth_df, LAMBDA r : r[2] \in genes))
        filtered_expr == TakeRows(cleaned_expr_df,
                            RowsWhere(cleaned_expr_df, LAMBDA r : r[1] \in genes))
        patients == common_patients(cleaned_meth_df, cleaned_expr_df)
    IN  IF patients = <<>> THEN AnnotateRaised("ValueError", <<NoCommonPatients>>)
        ELSE Annotated(
                <<SelectCols(filtered_meth,
                             SubSeq(filtered_meth.cols, 1, 2) \o patients)>>,
                <<SelectCols(filtered_expr,
                             SubSeq(filtered_expr.cols, 1, 1) \o patients)>>)

\* controller.py lines 97-112 and 51-66: the rows of the common genes and the
\* columns of the common patients of both frames, or the ValueError raised
align(cleaned_meth_df, cleaned_expr_df) ==
    LET genes == common_genes(cleaned_meth_df, cleaned_expr_df)
        filtered_meth == TakeRows(cleaned_meth_df,
                            RowsWhere(cleaned_meth_df, LAMBDA r : r[2] \in genes))
        filtered_expr == TakeRows(cleaned_expr_df,
                            RowsWhere(cleaned_expr_df, LAMBDA r : r[1] \in genes))
        patients == common_patients(cleaned_meth_df, cleaned_expr_df)
    IN  IF genes = {} THEN AnnotateRaised("ValueError", <<NoCommonGenes>>)
        ELSE IF patients = <<>> THEN AnnotateRaised("ValueError", <<NoCommonPatients>>)
        ELSE Annotated(
                <<SelectCols(filtered_meth,
                             SubSeq(filtered_meth.cols, 1, 2) \o patients)>>,
                <<SelectCols(filtered_expr,
                             SubSeq(filtered_expr.cols, 1, 1) \o patients)>>)

\* an upload of the controller: the file at a path that was given, and its type
Upload(path, file_type) == [file |-> path[1], type |-> file_type]

\* a call of the controller ends by raising what a step raised
Propagate(handler, res) == [fh |-> handler, res |-> ProcessRaised(res.raised, res.msg)]

\* controller.py lines 67, 77 and 86: merge_into_files on the final frames, in
\* the scenarios with a phenotype file (4, 5 and 6)
with_phenotype(handler, a, final) ==
    IF final.raised = "" /\ a.phenotype_path # <<>>
    THEN merge_into_files(final.meth, final.expr, handler.phenotype_df,
                          a.selected_phenotypes)
    ELSE final

\* controller.py lines 68 and 113: return final_meth, rows_removed_meth,
\* final_expr, rows_removed_expr
return_all_three(handler, final, rows_removed_meth, rows_removed_expr) ==
    IF final.raised # "" THEN Propagate(handler, final)
    ELSE [fh |-> handler,
          res |-> ProcessReturned(<<PyTable(final.meth[1]), PyInt(rows_removed_meth),
                                    PyTable(final.expr[1]), PyInt(rows_removed_expr)>>)]

\* controller.py lines 51-68 and 97-113, from the two cleaned results
all_three_cleaned(handler, a, meth, expr) ==
    return_all_three(handler, with_phenotype(handler, a, align(meth.df, expr.df)),
                     meth.removed, expr.removed)

\* controller.py lines 49-50 and 95-96, from the result of merge_files
all_three_merged(a, merged) ==
    IF merged.res.raised # "" THEN Propagate(merged.fh, merged.res)
    ELSE all_three_cleaned(merged.fh, a, merged.res,
            FileHandler_clean_gene_expression_df(merged.fh, a.zero_percent))

\* controller.py lines 49 and 95, from the result of the uploads
all_three_uploaded(a, u) ==
    IF u.res.raised # "" THEN Propagate(u.fh, u.res)
    ELSE all_three_merged(a, merge_files(u.fh, a.zero_percent))

\* controller.py lines 44-68 and 90-113: scenarios 6 and 3, all three files
process_all_three(handler, a) ==
    all_three_uploaded(a,
        upload_each(handler, <<Upload(a.methylation_path, "methylation"),
                               Upload(a.gene_mapping_path, "gene_mapping"),
                               Upload(a.gene_expression_path, "gene_expression")>>))

\* controller.py lines 78 and 128: return final_expr, rows_removed_expr
return_expression(handler, final, rows_removed_expr) ==
    IF final.raised # "" THEN Propagate(handler, final)
    ELSE [fh |-> handler,
          res |-> ProcessReturned(<<PyTable(final.expr[1]), PyInt(rows_removed_expr)>>)]

\* controller.py lines 75-78 and 128, from the cleaned result
expression_cleaned(handler, a, expr) ==
    return_expression(handler,
                      with_phenotype(handler, a, Annotated(<<expr.df>>, <<expr.df>>)),
                      expr.removed)

\* controller.py lines 74 and 127, from the result of the upload
expression_uploaded(a, u) ==
    IF u.res.raised # "" THEN Propagate(u.fh, u.res)
    ELSE expression_cleaned(u.fh, a,
            FileHandler_clean_gene_expression_df(u.fh, a.zero_percent))

\* controller.py lines 71-78 and 124-128: scenarios 5 and 1, expression alone
process_expression_only(handler, a) ==
    expression_uploaded(a,
        upload_each(handler, <<Upload(a.gene_expression_path, "gene_expression")>>))

\* controller.py lines 87 and 121: return final_meth, rows_removed_meth
return_methylation(handler, final, rows_removed_meth) ==
    IF final.raised # "" THEN Propagate(handler, final)
    ELSE [fh |-> handler,
          res |-> ProcessReturned(<<PyTable(final.meth[1]), PyInt(rows_removed_meth)>>)]

\* controller.py lines 86-87 and 121, from the result of merge_files
methylation_merged(a, merged) ==
    IF merged.res.raised # "" THEN Propagate(merged.fh, merged.res)
    ELSE return_methylation(merged.fh,
            with_phenotype(merged.fh, a,
                           Annotated(<<merged.res.df>>, <<merged.res.df>>)),
            merged.res.removed)

\* controller.py lines 85 and 120, from the result of the uploads
methylation_uploaded(a, u) ==
    IF u.res.raised # "" THEN Propagate(u.fh, u.res)
    ELSE methylation_merged(a, merge_files(u.fh, a.zero_percent))

\* controller.py lines 81-87 and 116-121: scenarios 4 and 2, methylation and mapping
process_methylation_and_mapping(handler, a) ==
    methylation_uploaded(a,
        upload_each(handler, <<Upload(a.methylation_path, "methylation"),
                               Upload(a.gene_mapping_path, "gene_mapping")>>))

\* controller.py lines 44-131: the scenario of the paths given, after the
\* upload of the phenotype file
process_scenario(pheno, a, meth, map, expr) ==
    IF pheno.res.raised # "" THEN Propagate(pheno.fh, pheno.res)
    ELSE IF meth /\ map /\ expr THEN process_all_three(pheno.fh, a)
    ELSE IF expr /\ ~(meth \/ map) THEN process_expression_only(pheno.fh, a)
    ELSE IF meth /\ map /\ ~expr THEN process_methylation_and_mapping(pheno.fh, a)
    ELSE Propagate(pheno.fh, Raised("ValueError", <<InvalidCombination>>))

\* Controller.process_files(methylation_path, gene_mapping_path,
\* gene_expression_path, phenotype_path, selected_phenotypes, zero_percent):
\* a path that is None is <<>>; the handler after the call, and what the call
\* returned or raised (what is raised inside is raised again unchanged)
process_files(handler, a) ==
    process_scenario(IF a.phenotype_path # <<>>
                     THEN controller_upload(handler, a.phenotype_path[1], "phenotype")
                     ELSE [fh |-> handler, res |-> Returned(NoFrame, 0)],
                     a,
                     a.methylation_path # <<>>,
                     a.gene_mapping_path # <<>>,
                     a.gene_expression_path # <<>>)

-----------------------------------------------------------------------------
(* Inputs of process_files *)

\* zero_percent of process_files when the caller passes none
DefaultZeroPercent == 0

\* the zero_percent arguments: none, and two thresholds
ProcessThresholds == {<<>>, <<50>>, <<100>>}

\* a data row of a file: its key, and whether its first data cell is a zero
\* (the other data cells are 1)
FileRow(key, first_zero, width) ==
    <<key>> \o [j \in 1..width |-> IF j = 1 /\ first_zero THEN Num(0) ELSE Num(1)]

FileFrame(cols, recs) ==
    Frame(cols, [i \in 1..Len(recs) |->
                    FileRow(recs[i].key, recs[i].first_zero, Len(cols) - 1)])

\* methylation files: the patients in another order than the expression
\* file has them, or a patient the expression file does not have
ProcessMethylationLayouts ==
    {<<GENE_CODE, <<"PatientB">>, <<"PatientA">>>>, <<GENE_CODE, <<"PatientD">>>>}

ProcessMethylationPool ==
    {[key |-> Word("cg01"), first_zero |-> FALSE],
     [key |-> Word("cg02"), first_zero |-> TRUE]}

\* a methylation file whose patient header ends in a space
TrailingSpaceFile ==
    File("methylation.txt",
         FileFrame(<<GENE_CODE, <<"PatientA", " ">>>>,
                   <<[key |-> Word("cg01"), first_zero |-> FALSE]>>))

ProcessMethylationFiles ==
    {File("methylation.txt", FileFrame(cols, recs)) :
        cols \in ProcessMethylationLayouts,
        recs \in SeqsUpTo(ProcessMethylationPool, MaxRows)}
    \cup {TrailingSpaceFile}

GENE_B_GENE_X == Str(<<"GENE_B", ",", "GENE_X">>)

\* mapping files: a probe of one gene and a probe of two; a gene no
\* expression file has and an unmapped probe; a probe of two genes and a
\* probe of the first of them; one probe mapped twice; the probe without a
\* zero mapped to the gene whose expression row has one
ProcessMappingFiles ==
    {File("gene_mapping.txt", Frame(<<GENE_CODE, ACTUAL_GENE_NAME>>, rows)) :
        rows \in {<<<<Word("cg01"), Word("GENE_A")>>, <<Word("cg02"), GENE_B_GENE_X>>>>,
                  <<<<Word("cg01"), Word("GENE_Z")>>, <<Word("cg02"), Word(".")>>>>,
                  <<<<Word("cg01"), GENE_B_GENE_X>>, <<Word("cg02"), Word("GENE_B")>>>>,
                  <<<<Word("cg01"), Word("GENE_A")>>, <<Word("cg01"), Word("GENE_B")>>>>,
                  <<<<Word("cg01"), Word("GENE_B")>>, <<Word("cg02"), Word("GENE_A")>>>>}}

ProcessExpressionPool ==
    {[key |-> Word("GENE_A"), first_zero |-> FALSE],
     [key |-> Word("GENE_B"), first_zero |-> TRUE],
     [key |-> GENE_B_GENE_X, first_zero |-> FALSE]}

ProcessExpressionFiles ==
    {File("gene_expression.txt",
          FileFrame(<<GENE_NAME, <<"PatientA">>, <<"PatientC">>, <<"PatientB">>>>, recs)) :
        recs \in SeqsUpTo(ProcessExpressionPool, MaxRows)}

ProcessPhenotypeFiles ==
    {File("phenotype.txt",
          Frame(<<<<"PatientID">>, AGE>>, <<<<Word("PatientA"), Num(7)>>>>))}

\* the arguments of the call, zero_percent at its default when not passed
Arguments(c) ==
    [c EXCEPT !.zero_percent = IF c.zero_percent = <<>> THEN DefaultZeroPercent
                               ELSE c.zero_percent[1]]

-----------------------------------------------------------------------------
(* A call of Controller.process_files on a new Controller *)

\* a call with every combination of paths given and not given;
\* characteristics are selected only with a phenotype file
InitProcess ==
    /\ pc = "start"
    /\ \E meth \in Optional(ProcessMethylationFiles),
          expr \in Optional(ProcessExpressionFiles),
          map \in Optional(ProcessMappingFiles),
          pheno \in Optional(ProcessPhenotypeFiles),
          zero_percent \in ProcessThresholds :
            \E selected \in IF pheno = <<>> THEN {<<>>} ELSE {<<>>, <<AGE>>} :
                inp = [kind |-> "process",
                       methylation_path |-> meth,
                       gene_mapping_path |-> map,
                       gene_expression_path |-> expr,
                       phenotype_path |-> pheno,
                       selected_phenotypes |-> selected,
                       zero_percent |-> zero_percent]
    /\ out = ProcessReturned(<<>>)
    /\ again = NoResult
    /\ fh = NoFilesLoaded

\* the call ends: the handler it leaves, and what it returned or raised
Called(r) ==
    /\ fh' = r.fh
    /\ out' = r.res
    /\ pc' = "done"
    /\ UNCHANGED <<inp, again>>

\* process_files with methylation, mapping and expression paths
ProcessAllThree ==
    /\ pc = "start"
    /\ inp.methylation_path # <<>> /\ inp.gene_mapping_path # <<>>
    /\ inp.gene_expression_path # <<>>
    /\ Called(process_files(fh, Arguments(inp)))

\* process_files with an expression path and neither of the other two
ProcessExpressionOnly ==
    /\ pc = "start"
    /\ inp.methylation_path = <<>> /\ inp.gene_mapping_path = <<>>
    /\ inp.gene_expression_path # <<>>
    /\ Called(process_files(fh, Arguments(inp)))

\* process_files with methylation and mapping paths and no expression path
ProcessMethylationAndMapping ==
    /\ pc = "start"
    /\ inp.methylation_path # <<>> /\ inp.gene_mapping_path # <<>>
    /\ inp.gene_expression_path = <<>>
    /\ Called(process_files(fh, Arguments(inp)))

\* process_files with any other combination of paths
ProcessOtherCombination ==
    /\ pc = "start"
    /\ \/ (inp.methylation_path = <<>>) # (inp.gene_mapping_path = <<>>)
       \/ /\ inp.methylation_path = <<>> /\ inp.gene_mapping_path = <<>>
          /\ inp.gene_expression_path = <<>>
    /\ Called(process_files(fh, Arguments(inp)))

NextProcess ==
    \/ ProcessAllThree
    \/ ProcessExpressionOnly
    \/ ProcessMethylationAndMapping
    \/ ProcessOtherCombination

SpecProcess == InitProcess /\ [][NextProcess]_vars

-----------------------------------------------------------------------------
(* Two calls of Controller.process_files, one after the other, on the same
   Controller: the second call finds the FileHandler as the first left it *)

\* the files of the repeated calls: two of each kind that differ in their
\* rows, and the mapping file with a Gene_Code twice, whose upload raises
\* after the methylation file was loaded
RepeatMethylationFiles ==
    {File("methylation.txt",
          FileFrame(<<GENE_CODE, <<"PatientB">>, <<"PatientA">>>>, recs)) :
        recs \in {<<[key |-> Word("cg01"), first_zero |-> FALSE]>>,
                  <<[key |-> Word("cg02"), first_zero |-> FALSE],
                    [key |-> Word("cg01"), first_zero |-> TRUE]>>}}

RepeatMappingFiles ==
    {f \in ProcessMappingFiles :
        f.df.rows[1][2] = Word("GENE_A") \/ f.df.rows[2][2] = Word("GENE_B")}

RepeatExpressionFiles ==
    {File("gene_expression.txt",
          FileFrame(<<GENE_NAME, <<"PatientA">>, <<"PatientC">>, <<"PatientB">>>>, recs)) :
        recs \in {<<[key |-> Word("GENE_A"), first_zero |-> FALSE]>>,
                  <<[key |-> Word("GENE_B"), first_zero |-> FALSE],
                    [key |-> GENE_B_GENE_X, first_zero |-> FALSE]>>}}

\* the arguments of one of the calls
RepeatArguments ==
    {[kind |-> "process",
      methylation_path |-> meth,
      gene_mapping_path |-> map,
      gene_expression_path |-> expr,
      phenotype_path |-> pheno,
      selected_phenotypes |-> IF pheno = <<>> THEN <<>> ELSE <<AGE>>,
      zero_percent |-> <<100>>] :
        meth \in Optional(RepeatMethylationFiles),
        map \in Optional(RepeatMappingFiles),
        expr \in Optional(RepeatExpressionFiles),
        pheno \in Optional(ProcessPhenotypeFiles)}

InitRepeat ==
    /\ pc = "start"
    /\ \E first \in RepeatArguments, second \in RepeatArguments :
            inp = [kind |-> "repeat", first |-> first, second |-> second]
    /\ out = ProcessReturned(<<>>)
    /\ again = ProcessReturned(<<>>)
    /\ fh = NoFilesLoaded

\* the call ends: the handler it leaves, and what it returned or raised
CalledFirst(r) ==
    /\ fh' = r.fh
    /\ again' = r.res
    /\ pc' = "first"
    /\ UNCHANGED <<inp, out>>

\* the first call, on the new Controller
FirstCall ==
    /\ pc = "start"
    /\ CalledFirst(process_files(fh, Arguments(inp.first)))

CalledSecond(r) ==
    /\ fh' = r.fh
    /\ out' = r.res
    /\ pc' = "second"
    /\ UNCHANGED <<inp, again>>

\* the second call, on the Controller the first call has used
SecondCall ==
    /\ pc = "first"
    /\ CalledSecond(process_files(fh, Arguments(inp.second)))

NextRepeat ==
    \/ FirstCall
    \/ SecondCall

SpecRepeat == InitRepeat /\ [][NextRepeat]_vars

-----------------------------------------------------------------------------
(* Two calls of Controller.process_files at the same time on the one
   Controller of the web application: the steps of the two calls interleave
   on the one FileHandler *)

\* the two requests being served
Invocations == {1, 2}

\* the arguments of a call with a methylation and a mapping file alone
ConcurrentArguments ==
    {a \in RepeatArguments :
        /\ a.methylation_path # <<>> /\ a.gene_mapping_path # <<>>
        /\ a.gene_expression_path = <<>> /\ a.phenotype_path = <<>>}

InitConcurrent ==
    /\ pc = [t \in Invocations |-> "start"]
    /\ \E calls \in [Invocations -> ConcurrentArguments] :
            inp = [kind |-> "concurrent", calls |-> calls]
    /\ out = [t \in Invocations |-> ProcessReturned(<<>>)]
    /\ again = NoResult
    /\ fh = NoFilesLoaded

\* a step of call t has ended: the handler it leaves, and the call goes on
\* at `next`, or ends raising what the step raised
Stepped(t, r, next) ==
    /\ fh' = r.fh
    /\ pc' = [pc EXCEPT ![t] = IF r.res.raised # "" THEN "done" ELSE next]
    /\ out' = [out EXCEPT ![t] = IF r.res.raised # ""
                                 THEN ProcessRaised(r.res.raised, r.res.msg)
                                 ELSE @]
    /\ UNCHANGED <<inp, again>>

\* controller.py line 118: call t uploads its methylation file
ConcurrentUploadMethylation(t) ==
    /\ pc[t] = "start"
    /\ Stepped(t, upload_file(fh, inp.calls[t].methylation_path[1], "methylation"),
               "methylation_uploaded")

\* controller.py line 119: call t uploads its mapping file
ConcurrentUploadMapping(t) ==
    /\ pc[t] = "methylation_uploaded"
    /\ Stepped(t, upload_file(fh, inp.calls[t].gene_mapping_path[1], "gene_mapping"),
               "mapping_uploaded")

\* call t ends: the handler it leaves, and what it returned or raised
Ended(t, r) ==
    /\ fh' = r.fh
    /\ pc' = [pc EXCEPT ![t] = "done"]
    /\ out' = [out EXCEPT ![t] = r.res]
    /\ UNCHANGED <<inp, again>>

\* controller.py lines 120-121: call t merges what the handler holds, and
\* returns
ConcurrentMergeFiles(t) ==
    /\ pc[t] = "mapping_uploaded"
    /\ Ended(t, methylation_merged(Arguments(inp.calls[t]),
                                   merge_files(fh, Arguments(inp.calls[t]).zero_percent)))

NextConcurrent ==
    \E t \in Invocations :
        \/ ConcurrentUploadMethylation(t)
        \/ ConcurrentUploadMapping(t)
        \/ ConcurrentMergeFiles(t)

SpecConcurrent == InitConcurrent /\ [][NextConcurrent]_vars

-----------------------------------------------------------------------------
(* A POST to the index handler of the web application:
   src/tcga_web_app/app.py *)

\* the form fields of the uploads, in the order the handler saves them
UploadLabels == <<"methylation", "gene_mapping", "gene_expression", "phenotype">>

\* the upload of a label, <<>> when the form field is empty
Uploaded(a, label) ==
    CASE label = "methylation" -> a.methylation_path
      [] label = "gene_mapping" -> a.gene_mapping_path
      [] label = "gene_expression" -> a.gene_expression_path
      [] label = "phenotype" -> a.phenotype_path

\* app.py lines 109-116: the combinations of uploads the handler lets through
valid_combo(a) ==
    LET has_methylation == a.methylation_path # <<>>
        has_mapping == a.gene_mapping_path # <<>>
        has_expression == a.gene_expression_path # <<>>
    IN  \/ has_methylation /\ has_mapping
        \/ ~has_methylation /\ ~has_mapping /\ has_expression

\* a POST with each upload present or not, and with or without save_folder;
\* no temporary file exists yet
InitWeb ==
    /\ pc = "start"
    /\ \E files \in RepeatArguments, save_folder \in {<<>>, <<"results">>} :
            inp = [kind |-> "post", files |-> files, save_folder |-> save_folder]
    /\ out = [temp_files |-> <<>>, on_disk |-> {}, flashed |-> ""]
    /\ again = NoResult
    /\ fh = NoFilesLoaded

\* the handler returns the page with a message flashed
Rendered(message) ==
    /\ out' = [out EXCEPT !.flashed = message]
    /\ pc' = "returned"
    /\ UNCHANGED <<inp, again, fh>>

\* app.py lines 97-134: the checks before any file is saved
ValidateForm ==
    /\ pc = "start"
    /\ IF ~valid_combo(inp.files) THEN Rendered("error")
       ELSE IF inp.save_folder = <<>> THEN Rendered("error")
       ELSE /\ pc' = "saving_uploads"
            /\ UNCHANGED <<inp, out, again, fh>>

\* the labels of the uploads present that have no temporary file yet
Unsaved ==
    SelectSeq(UploadLabels,
              LAMBDA label : /\ Uploaded(inp.files, label) # <<>>
                             /\ \A i \in 1..Len(out.temp_files) :
                                    out.temp_files[i] # label)

\* app.py lines 174-189: the next upload is written to a temporary file made
\* with delete=False, and its name is kept in temp_files
SaveUpload ==
    /\ pc = "saving_uploads"
    /\ Unsaved # <<>>
    /\ out' = [out EXCEPT !.temp_files = Append(@, Head(Unsaved)),
                          !.on_disk = @ \cup {Head(Unsaved)}]
    /\ UNCHANGED <<pc, inp, again, fh>>

\* app.py lines 192-199 and 233-235: what process_files raises, and the
\* ValueError of unpacking a result that is not a pair, is flashed and the
\* handler returns; with a pair the handler goes on to save_results
Processed(r) ==
    /\ fh' = r.fh
    /\ IF r.res.raised # "" \/ Len(r.res.ret) # 2
       THEN /\ out' = [out EXCEPT !.flashed = "error"]
            /\ pc' = "returned"
       ELSE /\ pc' = "saving_results"
            /\ UNCHANGED out
    /\ UNCHANGED <<inp, again>>

\* app.py lines 192-199: controller.process_files on the temporary files
WebProcessFiles ==
    /\ pc = "saving_uploads"
    /\ Unsaved = <<>>
    /\ Processed(process_files(fh, Arguments(inp.files)))

\* app.py lines 202-204 and 233-235: controller.save_results writes the
\* output files, or raises (the folder cannot be written) and the error is
\* flashed
SaveResults ==
    /\ pc = "saving_results"
    /\ \E saved \in BOOLEAN :
            IF saved
            THEN /\ pc' = "cleaning"
                 /\ UNCHANGED out
            ELSE /\ pc' = "returned"
                 /\ out' = [out EXCEPT !.flashed = "error"]
    /\ UNCHANGED <<inp, again, fh>>

\* app.py lines 207-231: os.remove of every name in temp_files, and the
\* page is returned
RemoveTempFiles ==
    /\ pc = "cleaning"
    /\ out' = [out EXCEPT !.on_disk =
                    @ \ {out.temp_files[i] : i \in 1..Len(out.temp_files)},
                          !.flashed = "success"]
    /\ pc' = "returned"
    /\ UNCHANGED <<inp, again, fh>>

NextWeb ==
    \/ ValidateForm
    \/ SaveUpload
    \/ WebProcessFiles
    \/ SaveResults
    \/ RemoveTempFiles

SpecWeb == InitWeb /\ [][NextWeb]_vars

-----------------------------------------------------------------------------
(* Properties of the cleaners, checked under SpecClean *)

\* the data columns of the frame the cleaner was given
DataOf(i) ==
    IF i.kind = "merged"
    THEN {j \in 1..Len(i.df.cols) : i.df.cols[j] \notin {GENE_CODE, ACTUAL_GENE_NAME}}
    ELSE 2..Len(i.df.cols)

\* the index labels of a frame
Labels(df) == {df.index[i] : i \in 1..Len(df.index)}

\* the row of df with index label l
RowAt(df, l) == df.rows[CHOOSE i \in 1..Len(df.index) : df.index[i] = l]

\* C1 (as claimed): for 0 < T < 100, a row that enters the threshold step with
\* k zero cells among its n >= 1 data columns is in the output iff 100*k/n < T
C1_GeneralBoundary ==
    (pc = "cleaned" /\ inp.zero_percent > 0 /\ inp.zero_percent < 100) =>
        \A i \in 1..Len(out.numeric.rows) :
            LET k == zero_counts(out.numeric.rows[i], DataOf(inp))
                n == Cardinality(DataOf(inp))
            IN  n >= 1 =>
                    (out.numeric.index[i] \in Labels(out.df)
                        <=> 100 * k < inp.zero_percent * n)

\* C2 (as claimed): at T = 0 a row is kept iff it has no zero cell
C2_ThresholdZero ==
    (pc = "cleaned" /\ inp.zero_percent = 0) =>
        \A i \in 1..Len(out.numeric.rows) :
            out.numeric.index[i] \in Labels(out.df)
                <=> zero_counts(out.numeric.rows[i], DataOf(inp)) = 0

\* C3 (as claimed): at T = 100 the threshold step returns every row it is
\* given, unchanged and in the same order
C3_ThresholdHundredIdentity ==
    (pc = "cleaned" /\ inp.zero_percent = 100) => out.df = out.numeric

\* C4 (as claimed): cleaning the merged frame removes exactly the rows whose
\* Actual_Gene_Name is "." and keeps the others in their order
C4_OnlyDotRowsRemoved ==
    (pc = "cleaned" /\ inp.kind = "merged") =>
        out.df.index =
            SelectSeq(inp.df.index,
                      LAMBDA l : RowAt(inp.df, l)[ColPos(inp.df.cols, ACTUAL_GENE_NAME)]
                                    # Word("."))

\* the value the specification gives a cleaned data cell: 0.0 for a missing
\* marker, a null or a text that is no number, else the number
SpecifiedValue(c) ==
    IF c.t = "num" THEN c
    ELSE IF c.t = "str" /\ ParseNumber(c.s) # NaN THEN ParseNumber(c.s)
    ELSE Num(0)

\* C5 (as claimed): every data cell of every row with a gene name comes out
\* of clean_merged_df as its number, 0.0 for malformed content
C5_MalformedCellsBecomeZero ==
    (pc = "cleaned" /\ inp.kind = "merged") =>
        \A l \in Labels(inp.df) :
            RowAt(inp.df, l)[ColPos(inp.df.cols, ACTUAL_GENE_NAME)] # Word(".") =>
                /\ l \in Labels(out.df)
                /\ \A j \in DataOf(inp) :
                        RowAt(out.df, l)[j] = SpecifiedValue(RowAt(inp.df, l)[j])

\* C6 (as claimed): cleaning a cleaned frame again, with the same threshold,
\* whatever the threshold, returns the same frame: same rows, same order,
\* same cell values
C6_IdempotentAnyThreshold ==
    pc = "recleaned" => again.df = out.df

\* what the cleaners do keep: with a threshold of at most 100 the second
\* cleaning returns what the first returned
IdempotentUpToHundred ==
    (pc = "recleaned" /\ inp.zero_percent <= 100) => again.df = out.df

\* C27 (as claimed): a table that has identifier columns only comes out of
\* the zero filter of either cleaner as it went in, with all its rows, at
\* every threshold
C27_NoDataColumnsUnchanged ==
    (pc = "cleaned" /\ DataOf(inp) = {}) => out.df = inp.df

-----------------------------------------------------------------------------
(* Properties of the merge, checked under SpecMerge *)

\* a merge has returned or raised: DataMerger's, or FileHandler's
MergeDone == pc \in {"merged", "files_merged"}

\* the Gene_Code values of the mapping table, when it has that column
MappingKeys ==
    [i \in 1..Len(inp.mapping.rows) |->
        inp.mapping.rows[i][ColPos(inp.mapping.cols, GENE_CODE)]]

\* the mapping table has a Gene_Code column with a value in two rows
MappingHasDuplicates ==
    HasCol(inp.mapping.cols, GENE_CODE) /\ Duplicated(MappingKeys) # {}

\* C7 (as claimed): a merge with a mapping table that has a duplicate
\* Gene_Code raises an error whose message lists the duplicate keys
C7_DuplicateKeysRejected ==
    (MergeDone /\ HasCol(inp.methylation.cols, GENE_CODE) /\ MappingHasDuplicates) =>
        /\ out.raised # ""
        /\ \A x \in 1..Len(DuplicateKeys(MappingKeys)) :
                \E y \in 1..Len(out.msg) : <<out.msg[y]>> = DuplicateKeys(MappingKeys)[x].s

\* the Gene_Code values of the mapping table the finished merge joined on
JoinedKeys ==
    IF pc = "merged"
    THEN {MappingKeys[x] : x \in 1..Len(MappingKeys)}
    ELSE {fh.gene_mapping_df[1].rows[x][1] : x \in 1..Len(fh.gene_mapping_df[1].rows)}

\* C8 (as claimed): every row of a merged table has a Gene_Code that is not
\* null and occurs in the mapping table
C8_InnerJoin ==
    (MergeDone /\ out.raised = "") =>
        \A i \in 1..Len(out.df.rows) :
            LET key == out.df.rows[i][ColPos(out.df.cols, GENE_CODE)]
            IN  ~isna(key) /\ key \in JoinedKeys

\* C9 (as claimed): the columns of a merged table are Gene_Code,
\* Actual_Gene_Name, then the other columns of the methylation table in
\* their input order
C9_ColumnOrder ==
    (MergeDone /\ out.raised = "") =>
        /\ Len(out.df.cols) >= 2
        /\ out.df.cols[1] = GENE_CODE
        /\ out.df.cols[2] = ACTUAL_GENE_NAME
        /\ SubSeq(out.df.cols, 3, Len(out.df.cols))
            = SelectSeq(inp.methylation.cols,
                        LAMBDA c : c # GENE_CODE /\ c # inp.methylation.cols[
                            IF HasCol(inp.methylation.cols, GENE_CODE)
                            THEN ColPos(inp.methylation.cols, GENE_CODE) ELSE 1])

-----------------------------------------------------------------------------
(* Properties of the annotation, checked under SpecAnnotate *)

\* C20: with no characteristic selected, or no phenotype table, merge_into_files
\* raises nothing and returns the two frames it was given: same rows, same
\* cells, same types, no row added
C20_AnnotationNoOp ==
    (pc = "annotated" /\ (inp.selected = <<>> \/ inp.phenotype = <<>>)) =>
        /\ out.raised = ""
        /\ out.meth = inp.meth
        /\ out.expr = inp.expr

\* characteristics were selected, no phenotype table was given, and both
\* frames, with numbers in their rows, came back
C20_Witness ==
    /\ pc = "annotated"
    /\ inp.selected # <<>>
    /\ inp.phenotype = <<>>
    /\ inp.meth # <<>> /\ inp.meth[1].rows # <<>>
    /\ inp.expr # <<>> /\ inp.expr[1].rows # <<>>
    /\ out.meth = inp.meth
    /\ out.expr = inp.expr

\* the call of merge_into_files has ended with a phenotype table and a
\* non-empty list of distinct characteristics that are columns of the table
AnnotatedWithSelection ==
    /\ pc = "annotated"
    /\ inp.phenotype # <<>>
    /\ inp.selected # <<>>
    /\ \A x \in 1..Len(inp.selected) :
            /\ \E j \in 2..Len(inp.phenotype[1].cols) :
                    inp.phenotype[1].cols[j] = inp.selected[x]
            /\ \A y \in 1..Len(inp.selected) :
                    inp.selected[y] = inp.selected[x] => y = x

\* the frame `after` is the frame `before` with one row for each selected
\* characteristic, in the order selected and named in column `name`, put
\* before the rows of `before`, which follow in their order and cast to text
RowsPrepended(before, after, name) ==
    LET m == Len(inp.selected)
        r == Len(before.rows)
    IN  /\ after.cols = before.cols
        /\ Len(after.rows) = m + r
        /\ \A x \in 1..m : after.rows[x][name] = Str(inp.selected[x])
        /\ \A i \in 1..r : \A j \in 1..Len(before.cols) :
                after.rows[m + i][j] = cast_utf8(before.rows[i][j])

\* C21: for a non-empty list c1..cm of selected characteristics of the
\* phenotype table and each table given, with r rows, merge_into_files
\* returns a table of m + r rows with the same columns in the same order:
\* rows 1..m are the rows of c1..cm in that order, and after them the r rows
\* of the table in their order, their cells cast to text
C21_PhenotypeRowOrdering ==
    AnnotatedWithSelection =>
        /\ out.raised = ""
        /\ inp.meth # <<>> =>
                (out.meth # <<>> /\ RowsPrepended(inp.meth[1], out.meth[1], 2))
        /\ inp.expr # <<>> =>
                (out.expr # <<>> /\ RowsPrepended(inp.expr[1], out.expr[1], 1))

\* stage then age were selected for a methylation and an expression table
\* of two rows each, and the call returned
C21_Witness ==
    /\ AnnotatedWithSelection
    /\ inp.selected = <<STAGE, AGE>>
    /\ inp.meth # <<>> /\ Len(inp.meth[1].rows) = 2
    /\ inp.expr # <<>> /\ Len(inp.expr[1].rows) = 2
    /\ out.raised = ""
    /\ Len(out.meth[1].rows) = 4 /\ Len(out.expr[1].rows) = 4

\* the text of a trimmed patient identifier of the phenotype table
TrimmedId(c) == IF c.t = "str" THEN Strip(c.s) ELSE IF c.t = "num" THEN <<ToString(c.n)>> ELSE <<>>

\* the cell the claim gives a phenotype value: the empty text for a missing
\* value, and for every other value, 0 included, its string form
StringForm(c) ==
    IF c.t = "nan" THEN Str(<<>>)
    ELSE IF c.t = "num" THEN Str(<<ToString(c.n)>>)
    ELSE c

\* the cells the claim allows in the row of characteristic `char` under the
\* patient column `patient`: the empty text when no record has the trimmed
\* patient as its trimmed identifier, else the string form of a record's value
PhenotypeCells(patient, char) ==
    LET pheno == inp.phenotype[1]
        records == {i \in 1..Len(pheno.rows) : TrimmedId(pheno.rows[i][1]) = Strip(patient)}
        col == CHOOSE j \in 2..Len(pheno.cols) : pheno.cols[j] = char
    IN  IF records = {} THEN {Str(<<>>)}
        ELSE {StringForm(pheno.rows[i][col]) : i \in records}

\* the patient cells of the first rows of `after` are the phenotype values
PatientCellsFilled(after, patients) ==
    \A x \in 1..Len(inp.selected) : \A j \in patients :
        after.rows[x][j] \in PhenotypeCells(after.cols[j], inp.selected[x])

\* C22 (as claimed): the row added for characteristic c has "" and c in the
\* identifier columns of the methylation table and c in that of the
\* expression table, and under each patient column the string form of the
\* patient's value of c, whatever the value (0 too), the empty text being
\* for a patient without record and for a missing value only
C22_PhenotypeRowContent ==
    (AnnotatedWithSelection /\ out.raised = "") =>
        /\ inp.meth # <<>> =>
                /\ \A x \in 1..Len(inp.selected) :
                        /\ out.meth[1].rows[x][1] = Str(<<>>)
                        /\ out.meth[1].rows[x][2] = Str(inp.selected[x])
                /\ PatientCellsFilled(out.meth[1], 3..Len(out.meth[1].cols))
        /\ inp.expr # <<>> =>
                /\ \A x \in 1..Len(inp.selected) :
                        out.expr[1].rows[x][1] = Str(inp.selected[x])
                /\ PatientCellsFilled(out.expr[1], 2..Len(out.expr[1].cols))

-----------------------------------------------------------------------------
(* Properties of process_files, checked under SpecProcess *)

\* the call has ended, by returning or by raising
ProcessDone == pc = "done"

\* the full case: a methylation, a mapping and an expression path
FullCase ==
    /\ inp.methylation_path # <<>>
    /\ inp.gene_mapping_path # <<>>
    /\ inp.gene_expression_path # <<>>

\* the handler of the full case when its three files are loaded
FullCaseLoaded ==
    upload_each(NoFilesLoaded, <<Upload(inp.methylation_path, "methylation"),
                                 Upload(inp.gene_mapping_path, "gene_mapping"),
                                 Upload(inp.gene_expression_path, "gene_expression")>>)

\* cleaned_meth_df and rows_removed_meth of the full case
CleanedMeth == merge_files(FullCaseLoaded.fh, Arguments(inp).zero_percent).res

\* cleaned_expr_df and rows_removed_expr of the full case
CleanedExpr ==
    FileHandler_clean_gene_expression_df(FullCaseLoaded.fh, Arguments(inp).zero_percent)

\* the full case got as far as gene matching: the files were loaded and merged
ReachedGeneMatching ==
    /\ ProcessDone /\ FullCase
    /\ FullCaseLoaded.res.raised = ""
    /\ CleanedMeth.raised = ""

\* the names a text splits into at its commas
SplitNames(s) ==
    LET cuts == {0, Len(s) + 1} \cup {i \in 1..Len(s) : s[i] = ","}
    IN  {SubSeq(s, c[1] + 1, c[2] - 1) :
            c \in {d \in cuts \X cuts :
                    d[1] < d[2] /\ \A m \in cuts : ~(d[1] < m /\ m < d[2])}}

\* the gene names of a cell of Actual_Gene_Name; a missing name has none
GeneNames(c) == IF c.t = "str" THEN SplitNames(c.s) ELSE {}

\* the gene names of the gene column of an expression table
ExpressionGenes(df) ==
    {df.rows[i][1].s : i \in {j \in 1..Len(df.rows) : df.rows[j][1].t = "str"}}

\* the final methylation and expression tables the full case returned
FinalMeth == out.ret[1].df

FinalExpr == out.ret[3].df

\* the rows merge_into_files put before the rows of a final table: one for
\* each selected characteristic, when there is a phenotype file
AnnotationRows ==
    IF inp.phenotype_path # <<>> THEN Len(inp.selected_phenotypes) ELSE 0

\* the positions of the rows of data of a final table
DataRows(df) == (AnnotationRows + 1)..Len(df.rows)

\* the methylation row (Gene_Code, Actual_Gene_Name, ...) is in the final
\* methylation table
RetainedMeth(r) ==
    /\ out.raised = ""
    /\ \E i \in 1..Len(FinalMeth.rows) :
            FinalMeth.rows[i][1] = r[1] /\ FinalMeth.rows[i][2] = r[2]

\* both cleaned tables have a patient column in common
HaveCommonPatients == common_patients(CleanedMeth.df, CleanedExpr.df) # <<>>

ValidGenes == UNION {GeneNames(FinalMeth.rows[i][2]) : i \in DataRows(FinalMeth)}

\* the expression row (Gene_Name, ...) is a row of data of the final
\* expression table
KeptExpr(r) == \E i \in DataRows(FinalExpr) : FinalExpr.rows[i][1] = r[1]

FinalExprGenes == {FinalExpr.rows[i][1].s : i \in DataRows(FinalExpr)}

MatchedMethRows ==
    {i \in 1..Len(CleanedMeth.df.rows) :
        CleanedMeth.df.rows[i][2] \in common_genes(CleanedMeth.df, CleanedExpr.df)}

MatchedExprRows ==
    {i \in 1..Len(CleanedExpr.df.rows) :
        CleanedExpr.df.rows[i][1] \in common_genes(CleanedMeth.df, CleanedExpr.df)}

InputCommonPatients ==
    LET meth_cols == inp.methylation_path[1].df.cols
        expr_cols == inp.gene_expression_path[1].df.cols
    IN  SelectSeq(Tail(meth_cols),
                  LAMBDA col : \E j \in 2..Len(expr_cols) : expr_cols[j] = col)

\* the final tables have the id columns and then the common patients
FinalColumnsAligned ==
    /\ FinalMeth.cols = <<GENE_CODE, ACTUAL_GENE_NAME>> \o InputCommonPatients
    /\ FinalExpr.cols = <<GENE_NAME>> \o InputCommonPatients

MethylationWithoutMapping == "Methylation file was provided without a gene mapping file."

MappingWithoutMethylation == "Gene mapping file was provided without a methylation file."

\* C16 (as claimed): a call with a methylation path and no mapping path
\* raises an error saying that the methylation file came without a gene
\* mapping file, and a call with a mapping path and no methylation path one
\* saying that the mapping file came without a methylation file, whatever
\* the expression and phenotype paths
C16_PairingValidation ==
    ProcessDone =>
        /\ (inp.methylation_path # <<>> /\ inp.gene_mapping_path = <<>>) =>
                (out.raised = "ValueError" /\ out.msg = <<MethylationWithoutMapping>>)
        /\ (inp.methylation_path = <<>> /\ inp.gene_mapping_path # <<>>) =>
                (out.raised = "ValueError" /\ out.msg = <<MappingWithoutMethylation>>)

\* the value None in a result
PyNone == [py |-> "None", df |-> NoFrame, n |-> 0]

\* no methylation, mapping or expression path: no file, or a phenotype alone
NothingToProcess ==
    /\ inp.methylation_path = <<>>
    /\ inp.gene_mapping_path = <<>>
    /\ inp.gene_expression_path = <<>>

\* C17 (as claimed): a call with no file, or with a phenotype file alone,
\* does not raise and returns (None, None)
C17_EmptyInputNoOp ==
    (ProcessDone /\ NothingToProcess) =>
        (out.raised = "" /\ out.ret = <<PyNone, PyNone>>)

\* methylation and mapping paths and no expression path
MethylationCase ==
    /\ inp.methylation_path # <<>>
    /\ inp.gene_mapping_path # <<>>
    /\ inp.gene_expression_path = <<>>

\* an expression path and neither of the other two
ExpressionCase ==
    /\ inp.methylation_path = <<>>
    /\ inp.gene_mapping_path = <<>>
    /\ inp.gene_expression_path # <<>>

\* C18 (as claimed): what process_files returns for a valid combination is a
\* pair: a table where methylation and mapping were given and else None,
\* then a table where an expression file was given and else None
C18_UniformResultShape ==
    (ProcessDone /\ (FullCase \/ MethylationCase \/ ExpressionCase) /\ out.raised = "") =>
        /\ Len(out.ret) = 2
        /\ out.ret[1].py = IF inp.methylation_path # <<>> THEN "DataFrame" ELSE "None"
        /\ out.ret[2].py = IF inp.gene_expression_path # <<>> THEN "DataFrame" ELSE "None"

\* the Gene_Code values of the methylation file's rows that the mapping file
\* gives a gene name other than "."
MappedGeneCodes ==
    LET meth == inp.methylation_path[1].df
        map == inp.gene_mapping_path[1].df
    IN  {meth.rows[i][1] : i \in {k \in 1..Len(meth.rows) :
            \E m \in 1..Len(map.rows) :
                map.rows[m][1] = meth.rows[k][1] /\ map.rows[m][2] # Word(".")}}

\* C19 (as claimed): a call without a zero_percent returns, in the case of
\* methylation and mapping alone, a row for every methylation row that the
\* mapping gives a gene name other than ".", and in the case of expression
\* alone as many rows as the expression file has
C19_DefaultThresholdRemovesNothing ==
    (ProcessDone /\ inp.zero_percent = <<>> /\ inp.phenotype_path = <<>>) =>
        /\ MethylationCase =>
                /\ out.raised = ""
                /\ \A code \in MappedGeneCodes :
                        \E i \in 1..Len(out.ret[1].df.rows) :
                            out.ret[1].df.rows[i][1] = code
        /\ ExpressionCase =>
                /\ out.raised = ""
                /\ Len(out.ret[1].df.rows) = Len(inp.gene_expression_path[1].df.rows)

\* the texts of the raise statements a run of the pipeline can reach: the
\* message an error has where it is raised begins with one of them
RaiseSiteTexts ==
    {NoCommonGenes, NoCommonPatients, InvalidCombination, "Gene mapping file '"}

\* the column names of the files of the call: the table library names the
\* columns it did not find in the error it raises
ColNames ==
    UNION {{f[1].df.cols[j] : j \in 1..Len(f[1].df.cols)} :
            f \in {inp.methylation_path, inp.gene_mapping_path,
                   inp.gene_expression_path, inp.phenotype_path} \ {<<>>}}

\* the mapping file of the call holds a Gene_Code twice
MappingHasDuplicateKeys ==
    /\ inp.gene_mapping_path # <<>>
    /\ LET rows == inp.gene_mapping_path[1].df.rows
       IN  \E i, j \in 1..Len(rows) : i < j /\ rows[i][1] = rows[j][1]

\* C23 (as claimed): an error of a run reaches the caller of process_files
\* with the message it was raised with, not wrapped in another text, and a
\* run that raised returned no table
C23_ErrorPropagation ==
    (ProcessDone /\ out.raised # "") =>
        /\ \/ out.raised = "ValueError" /\ out.msg[1] \in RaiseSiteTexts
           \/ out.raised = "ColumnNotFoundError" /\ out.msg[1] \in ColNames
        /\ out.ret = <<>>

\* a cell of a final table is a zero: the number, or its text after the
\* annotation has cast the table
ZeroCell(c) == c = Num(0) \/ c = cast_utf8(Num(0))

\* the row of data has fewer zeros among its cells from column `first` on
\* than the share T of them: it passes the zero filter at 0 < T < 100
PassesZeroFilter(row, first, T) ==
    Cardinality({j \in first..Len(row) : ZeroCell(row[j])}) * 100
        < T * (Len(row) - first + 1)

TrimmedCommonPatients ==
    LET meth_cols == inp.methylation_path[1].df.cols
        expr_cols == inp.gene_expression_path[1].df.cols
    IN  SelectSeq(Tail(meth_cols),
                  LAMBDA col : \E j \in 2..Len(expr_cols) :
                                    Strip(expr_cols[j]) = Strip(col))

-----------------------------------------------------------------------------
(* Properties of repeated calls, checked under SpecRepeat *)

\* the second call has ended
SecondDone == pc = "second"

\* what the second call's arguments give on a Controller that was never used
OwnResult == process_files(NoFilesLoaded, Arguments(inp.second)).res

\* C24: what a call of process_files returns or raises is what the same
\* arguments give on a new Controller, whatever the call before it, whether
\* it returned or raised, has left in the FileHandler
C24_RunIndependence == SecondDone => out = OwnResult

\* the first call raised at the upload of the mapping file, after it had
\* loaded its methylation file, and the second call, with another
\* methylation file, returned a table
C24_Witness ==
    /\ SecondDone
    /\ again.raised # "" /\ fh.methylation_df # <<>>
    /\ inp.first.methylation_path # <<>> /\ inp.second.methylation_path # <<>>
    /\ inp.first.methylation_path # inp.second.methylation_path
    /\ LET rows == inp.first.gene_mapping_path[1].df.rows
       IN  inp.first.gene_mapping_path # <<>> /\ rows[1][1] = rows[2][1]
    /\ out.raised = ""

-----------------------------------------------------------------------------
(* Properties of concurrent calls, checked under SpecConcurrent *)

\* what the arguments of call t give on a Controller no other call uses
AloneResult(t) == process_files(NoFilesLoaded, Arguments(inp.calls[t])).res

\* C26 (as claimed): in every interleaving of the steps of two calls on the
\* same Controller, a call that has ended has returned or raised what its
\* own files give: the tables merged are the ones it uploaded itself
C26_NoSharedTables ==
    \A t \in Invocations : pc[t] = "done" => out[t] = AloneResult(t)

-----------------------------------------------------------------------------
(* Properties of the web handler, checked under SpecWeb *)

\* C30 (as claimed): when the handler of a POST returns, on success or after
\* an error, no temporary file it made for an upload is left on disk
C30_TempFilesRemoved == pc = "returned" => out.on_disk = {}

=============================================================================
